---- MODULE Spec2Model ----
(***************************************************************************)
(* A model of the reddit-covid retrieval scripts:                          *)
(*   CollectRedditData.py  the three retried GET operations of             *)
(*                         CollectRedditPSIOData                           *)
(*   export_to_json.py     build_json_file and build_error_text_file       *)
(*   run_retrieval.py      make_date_range and run_reddit_psio_query       *)
(***************************************************************************)
EXTENDS Integers, Sequences, FiniteSets, TLC

VARIABLES
  call,       \* the fetch operation in progress: [op, num_retries, url, submission_id]
  retry,      \* number of iterations of "for retry in range(...)" started so far
  pc,         \* position in the fetch operation: idle, loop, after_loop, returned, raised
  response,   \* the local holding requests.get's response (Unbound until assigned)
  list_comments_submission_id,  \* the accumulated pairs of get_comments_id_from_submissions_id
  result,     \* what the call ended with: the returned value or the raised exception
  attempts,   \* history: what the client did on each GET of this call
  trace,      \* history: the GET and SLEEP events of this call, in order
  err_files,  \* the error text files: name -> sequence of lines
  json_files, \* the JSON files: name -> Absent or the text (tokens) of the file
  payloads,   \* history: the payloads handed to build_json_file, per file, in order
  io_error,   \* the exception build_json_file raised last, or "none"
  dates,      \* make_date_range's inputs: [given, start_date, end_date, tz]
  time_stamps,\* make_date_range's return value (Unset until it has run)
  drv,        \* run_reddit_psio_query's locals and position
  dlog,       \* history: the driver's fetches and persists, in order
  env         \* the HTTP client: [faults_left, subs_served, max_subs, id_lists]

vars == <<call, retry, pc, response, list_comments_submission_id, result, attempts,
          trace, err_files, json_files, payloads, io_error, dates, time_stamps, drv, dlog,
          env>>

fetchVars == <<call, retry, pc, response, list_comments_submission_id, result,
               attempts, trace>>

(***************************************************************************)
(* Bounds of the model                                                     *)
(***************************************************************************)
MaxRetries == 2
MaxData == 2
MaxSubsPerRun == 2

(***************************************************************************)
(* Program constants                                                       *)
(***************************************************************************)
time_delay == 2
number_results == 500

(***************************************************************************)
(* Values                                                                  *)
(***************************************************************************)
\* a response body: text that is not JSON, a JSON object without "data",
\* or {"data": [...]}; the data items are named by their ids
NotJson == [json |-> "invalid", data |-> <<>>]
NoDataKey == [json |-> "nodata", data |-> <<>>]
DataBody(items) == [json |-> "data", data |-> items]
\* a local that no statement has assigned yet
Unbound == [json |-> "unbound", data |-> <<>>]
NoBody == [json |-> "none", data |-> <<>>]

\* what a call ends with
Returned(body, pairs) == [exc |-> "none", body |-> body, pairs |-> pairs]
Raised(e) == [exc |-> e, body |-> NoBody, pairs |-> <<>>]
NoResult == [exc |-> "pending", body |-> NoBody, pairs |-> <<>>]

\* what the HTTP client does on one requests.get: raise, or hand back a response
ClientRaises(e) == [kind |-> "raise", exc |-> e, body |-> NoBody]
ClientResponds(b) == [kind |-> "response", exc |-> "none", body |-> b]

\* the ids of the submissions the search endpoint hands out, in the order it does
SubmissionNames == <<"s1", "s2", "s3", "s4", "s5", "s6">>
SubmissionIds == {"s1", "s2"}

\* the ids of the comments of a submission, in the order the endpoint lists them
CommentNames == <<"a", "b", "c", "d", "e", "f">>

\* the data a well-formed response to the call c may carry: the next submissions
\* not handed out yet (max_subs in all); one of the client's lists of comment ids;
\* all or none of the comments asked for
DataOf(c, e) ==
  CASE c.op = "get_submissions" ->
         {SubSeq(SubmissionNames, e.subs_served + 1, e.subs_served + n) :
            n \in 0..(e.max_subs - e.subs_served)}
    [] c.op = "get_comments_id_from_submissions_id" -> e.id_lists
    [] c.op = "get_comments" -> {<<>>, c.ids}

\* a GET that does not yield {"data": [...]}: the client raises, or the body is
\* not JSON, or it is JSON without "data"
Faults ==
  {ClientRaises(e) : e \in {"JSONDecodeError", "HTTPError", "ConnectionError"}}
  \cup {ClientResponds(NotJson), ClientResponds(NoDataKey)}

ClientOutcomes(c, e) ==
  (IF e.faults_left > 0 THEN Faults ELSE {})
  \cup {ClientResponds(DataBody(d)) : d \in DataOf(c, e)}

\* the client after it answered the call c with the outcome o
Served(c, e, o) ==
  IF o \in Faults
  THEN [e EXCEPT !.faults_left = @ - 1]
  ELSE IF c.op = "get_submissions"
       THEN [e EXCEPT !.subs_served = @ + Len(o.body.data)]
       ELSE e

(***************************************************************************)
(* str(int): the decimal digits of an integer, as a sequence of characters *)
(***************************************************************************)
Digit(d) ==
  CASE d = 0 -> "0" [] d = 1 -> "1" [] d = 2 -> "2" [] d = 3 -> "3" [] d = 4 -> "4"
    [] d = 5 -> "5" [] d = 6 -> "6" [] d = 7 -> "7" [] d = 8 -> "8" [] d = 9 -> "9"

RECURSIVE NatToStr(_)
NatToStr(n) == IF n < 10 THEN <<Digit(n)>> ELSE Append(NatToStr(n \div 10), Digit(n % 10))

IntToStr(n) == IF n < 0 THEN <<"-">> \o NatToStr(-n) ELSE NatToStr(n)

(***************************************************************************)
(* export_to_json.build_error_text_file                                    *)
(***************************************************************************)
\* open(name, 'a') creates the file when absent; write(f"{new_data}\n") adds a line
build_error_text_file(files, new_data, file_export_name) ==
  [files EXCEPT ![file_export_name] = Append(@, new_data)]

ErrorFileNames == {"submissions_error", "submission_id_error", "comment_error"}

ErrorFileOf(op) ==
  CASE op = "get_submissions" -> "submissions_error"
    [] op = "get_comments_id_from_submissions_id" -> "submission_id_error"
    [] op = "get_comments" -> "comment_error"

(***************************************************************************)
(* JSON values and the text json.dump writes and json.load reads           *)
(***************************************************************************)
\* a JSON value: a string, an object (its items are the fields, in order) or a list
JStr(s) == [t |-> "str", s |-> s, items |-> <<>>]
JField(key, value) == [t |-> "field", s |-> key, items |-> <<value>>]
JObj(fields) == [t |-> "obj", s |-> "", items |-> fields]
JList(items) == [t |-> "list", s |-> "", items |-> items]

\* the text of a file as its tokens (white space and indentation carry no meaning)
Punct(c) == [k |-> "punct", v |-> c]
StrTok(s) == [k |-> "str", v |-> s]

RECURSIVE Dump(_), DumpItems(_)
\* json.dump(value, f, ensure_ascii=False, indent=4)
Dump(value) ==
  CASE value.t = "str" -> <<StrTok(value.s)>>
    [] value.t = "field" -> <<StrTok(value.s), Punct(":")>> \o Dump(value.items[1])
    [] value.t = "obj" -> <<Punct("{")>> \o DumpItems(value.items) \o <<Punct("}")>>
    [] value.t = "list" -> <<Punct("[")>> \o DumpItems(value.items) \o <<Punct("]")>>

DumpItems(items) ==
  IF Len(items) = 0 THEN <<>>
  ELSE IF Len(items) = 1 THEN Dump(items[1])
  ELSE Dump(items[1]) \o <<Punct(",")>> \o DumpItems(Tail(items))

RECURSIVE ParseValue(_, _), ParseItems(_, _, _), ParseFields(_, _, _)
\* the value that starts at token i, and the position after it
ParseValue(toks, i) ==
  CASE toks[i] = Punct("[") ->
         IF toks[i + 1] = Punct("]")
         THEN [val |-> JList(<<>>), next |-> i + 2]
         ELSE ParseItems(toks, i + 1, <<>>)
    [] toks[i] = Punct("{") ->
         IF toks[i + 1] = Punct("}")
         THEN [val |-> JObj(<<>>), next |-> i + 2]
         ELSE ParseFields(toks, i + 1, <<>>)
    [] OTHER -> [val |-> JStr(toks[i].v), next |-> i + 1]

ParseItems(toks, i, acc) ==
  LET r == ParseValue(toks, i)
  IN IF toks[r.next] = Punct(",")
     THEN ParseItems(toks, r.next + 1, Append(acc, r.val))
     ELSE [val |-> JList(Append(acc, r.val)), next |-> r.next + 1]

ParseFields(toks, i, acc) ==
  LET r == ParseValue(toks, i + 2)
      fld == JField(toks[i].v, r.val)
  IN IF toks[r.next] = Punct(",")
     THEN ParseFields(toks, r.next + 1, Append(acc, fld))
     ELSE [val |-> JObj(Append(acc, fld)), next |-> r.next + 1]

\* json.load(f)
Load(toks) == ParseValue(toks, 1).val

\* a file that does not exist
Absent == <<[k |-> "absent", v |-> ""]>>

(***************************************************************************)
(* export_to_json.build_json_file                                          *)
(***************************************************************************)
\* the files after the call, and the exception it raised ("none" when it returned):
\* a new file gets the payload itself; an existing one is loaded, the payload is
\* appended to it with list.append, and the file is written again
build_json_file(files, new_data, file_export_name) ==
  IF files[file_export_name] = Absent
  THEN [files |-> [files EXCEPT ![file_export_name] = Dump(new_data)], exc |-> "none"]
  ELSE LET existing_data == Load(files[file_export_name])
       IN IF existing_data.t = "list"
          THEN [files |-> [files EXCEPT ![file_export_name] =
                             Dump(JList(Append(existing_data.items, new_data)))],
                exc |-> "none"]
          ELSE [files |-> files, exc |-> "AttributeError"]

(***************************************************************************)
(* CollectRedditPSIOData: the request URLs                                 *)
(***************************************************************************)
SubmissionsUrl(query, subreddit, before_date, after_date) ==
  <<"https://api.pushshift.io/reddit/search/submission/", "?q=", <<query>>,
    "&subreddit=", <<subreddit>>, "&after=", before_date, "&before=", after_date,
    "&limit=", IntToStr(number_results)>>

CommentIdsUrl(submission_id) ==
  <<"https://api.pushshift.io/reddit/submission/comment_ids/", <<submission_id>>>>

\* ','.join(list_comments_ids)
RECURSIVE JoinComma(_)
JoinComma(l) ==
  IF Len(l) = 0 THEN <<>>
  ELSE IF Len(l) = 1 THEN <<l[1]>>
  ELSE <<l[1], ",">> \o JoinComma(Tail(l))

CommentsUrl(list_comments_ids) ==
  <<"https://api.pushshift.io/reddit/search/comment", "?ids=", JoinComma(list_comments_ids)>>

(***************************************************************************)
(* CollectRedditPSIOData: the retry loop shared by the three operations    *)
(***************************************************************************)
GetEvent == [ev |-> "GET", secs |-> 0]
SleepEvent == [ev |-> "SLEEP", secs |-> time_delay]

\* a loop that runs once too often
LoopBoundOneMore(num_retries) == num_retries + 2

\* for retry in range(num_retries + 1)
LoopBound(num_retries) == num_retries + 1

\* the loop moves on to its next iteration, or ends when the range is used up
Continue ==
  /\ retry' = retry + 1
  /\ pc' = IF retry + 1 < LoopBound(call.num_retries) THEN "loop" ELSE "after_loop"

\* an exception no except clause names leaves the function
Propagate(e) ==
  /\ retry' = retry + 1
  /\ pc' = "raised"
  /\ result' = Raised(e)

\* except json.decoder.JSONDecodeError: log, write the URL to the error file, continue
OnJSONDecodeError ==
  /\ err_files' = build_error_text_file(err_files, call.url, ErrorFileOf(call.op))
  /\ Continue

\* except requests.HTTPError: log, continue
OnHTTPError ==
  /\ err_files' = err_files
  /\ Continue

\* requests.get raised: the sleep that follows it in the try block is skipped
OnGetRaised(o) ==
  /\ trace' = Append(trace, GetEvent)
  /\ UNCHANGED <<response, list_comments_submission_id>>
  /\ CASE o.exc = "JSONDecodeError" -> OnJSONDecodeError /\ UNCHANGED result
       [] o.exc = "HTTPError" -> OnHTTPError /\ UNCHANGED result
       [] OTHER -> Propagate(o.exc) /\ UNCHANGED err_files

\* one iteration of the loop of get_submissions and of get_comments:
\* GET, sleep, break; the body is not parsed inside the try block
TryGet(o) ==
  /\ attempts' = Append(attempts, o)
  /\ IF o.kind = "raise"
     THEN OnGetRaised(o)
     ELSE /\ response' = o.body
          /\ trace' = trace \o <<GetEvent, SleepEvent>>
          /\ retry' = retry + 1
          /\ pc' = "after_loop"
          /\ UNCHANGED <<list_comments_submission_id, result, err_files>>

\* return <response>.json() after the loop
ReturnJson ==
  /\ pc' = IF response.json \in {"unbound", "invalid"} THEN "raised" ELSE "returned"
  /\ result' = CASE response.json = "unbound" -> Raised("UnboundLocalError")
                 [] response.json = "invalid" -> Raised("JSONDecodeError")
                 [] OTHER -> Returned(response, <<>>)
  /\ UNCHANGED <<call, retry, response, list_comments_submission_id, attempts, trace,
                 err_files>>

(***************************************************************************)
(* get_comments_id_from_submissions_id                                     *)
(***************************************************************************)
Pair(submission_id, comment_id) ==
  [submission_id |-> submission_id, comment_id |-> comment_id]

\* the pairs inserted at the front instead of appended
PrependPairs(lst, submission_id, data) ==
  [i \in 1..Len(data) |-> Pair(submission_id, data[Len(data) + 1 - i])] \o lst

\* for comment_id in data: list_comments_submission_id.append({...})
AppendPairs(lst, submission_id, data) ==
  lst \o [i \in 1..Len(data) |-> Pair(submission_id, data[i])]

\* the list returned as it is
CommentIdsResultNoSentinel(submission_id, lst) == lst

\* the sentinel pair stands in for an empty list
CommentIdsResult(submission_id, lst) ==
  IF Len(lst) = 0 THEN <<Pair(submission_id, "N/A")>> ELSE lst

\* one iteration of its loop: GET, sleep, parse ["data"], append the pairs, break
TryGetCommentIds(o) ==
  /\ attempts' = Append(attempts, o)
  /\ IF o.kind = "raise"
     THEN OnGetRaised(o)
     ELSE /\ response' = o.body
          /\ trace' = trace \o <<GetEvent, SleepEvent>>
          /\ CASE o.body.json = "invalid" ->
                    OnJSONDecodeError /\ UNCHANGED <<list_comments_submission_id, result>>
               [] o.body.json = "nodata" ->
                    Propagate("KeyError") /\ UNCHANGED <<list_comments_submission_id, err_files>>
               [] OTHER ->
                    /\ list_comments_submission_id' =
                         AppendPairs(list_comments_submission_id, call.submission_id,
                                     o.body.data)
                    /\ retry' = retry + 1
                    /\ pc' = "after_loop"
                    /\ UNCHANGED <<result, err_files>>

ReturnCommentIds ==
  /\ pc' = "returned"
  /\ result' = Returned(NoBody, CommentIdsResult(call.submission_id,
                                                 list_comments_submission_id))
  /\ UNCHANGED <<call, retry, response, list_comments_submission_id, attempts, trace,
                 err_files>>

(***************************************************************************)
(* Entering an operation                                                   *)
(***************************************************************************)
Enter(op, num_retries, url, submission_id, ids) ==
  /\ call' = [op |-> op, num_retries |-> num_retries, url |-> url,
              submission_id |-> submission_id, ids |-> ids, err0 |-> err_files]
  /\ retry' = 0
  /\ pc' = IF 0 < LoopBound(num_retries) THEN "loop" ELSE "after_loop"
  /\ response' = Unbound
  /\ list_comments_submission_id' = <<>>
  /\ result' = NoResult
  /\ attempts' = <<>>
  /\ trace' = <<>>

NoCall == [op |-> "none", num_retries |-> 0, url |-> <<>>, submission_id |-> "",
           ids |-> <<>>,
           err0 |-> [f \in ErrorFileNames |-> <<>>]]

(***************************************************************************)
(* The steps of the three operations                                       *)
(***************************************************************************)
otherVars == <<json_files, payloads, io_error, dates, time_stamps>>

get_submissions_try ==
  /\ pc = "loop" /\ call.op = "get_submissions"
  /\ \E o \in ClientOutcomes(call, env) : TryGet(o) /\ env' = Served(call, env, o)
  /\ UNCHANGED <<call, otherVars, drv, dlog>>

get_submissions_return ==
  /\ pc = "after_loop" /\ call.op = "get_submissions"
  /\ ReturnJson
  /\ UNCHANGED <<otherVars, drv, dlog, env>>

get_comments_id_from_submissions_id_try ==
  /\ pc = "loop" /\ call.op = "get_comments_id_from_submissions_id"
  /\ \E o \in ClientOutcomes(call, env) :
       TryGetCommentIds(o) /\ env' = Served(call, env, o)
  /\ UNCHANGED <<call, otherVars, drv, dlog>>

get_comments_id_from_submissions_id_return ==
  /\ pc = "after_loop" /\ call.op = "get_comments_id_from_submissions_id"
  /\ ReturnCommentIds
  /\ UNCHANGED <<otherVars, drv, dlog, env>>

get_comments_try ==
  /\ pc = "loop" /\ call.op = "get_comments"
  /\ \E o \in ClientOutcomes(call, env) : TryGet(o) /\ env' = Served(call, env, o)
  /\ UNCHANGED <<call, otherVars, drv, dlog>>

get_comments_return ==
  /\ pc = "after_loop" /\ call.op = "get_comments"
  /\ ReturnJson
  /\ UNCHANGED <<otherVars, drv, dlog, env>>

FetchStep ==
  \/ get_submissions_try
  \/ get_submissions_return
  \/ get_comments_id_from_submissions_id_try
  \/ get_comments_id_from_submissions_id_return
  \/ get_comments_try
  \/ get_comments_return

(***************************************************************************)
(* SpecFetch: one call of one operation, with any retry budget up to       *)
(* MaxRetries, against a client that may do anything on each GET           *)
(***************************************************************************)
NoDriver == [pc |-> "none"]
NoClient == [faults_left |-> 0, subs_served |-> 0, max_subs |-> 0, id_lists |-> {}]
NoDates == [given |-> FALSE, start_date |-> 0, end_date |-> 0,
            tz |-> [std |-> 0, dst_from |-> 0, dst_to |-> 0]]
Unset == <<"unset">>
JsonFileNames == {"submissions", "submission_id_to_comment_id", "comments"}

\* a line an earlier run left in an error file
OldLine == CommentIdsUrl("s0")

get_submissions_call ==
  /\ pc = "idle"
  /\ \E r \in 0..MaxRetries :
       Enter("get_submissions", r,
             SubmissionsUrl("covid", "Canada", IntToStr(0), IntToStr(86400)), "", <<>>)
  /\ UNCHANGED <<err_files, otherVars, drv, dlog, env>>

get_comments_id_from_submissions_id_call ==
  /\ pc = "idle"
  /\ \E r \in 0..MaxRetries, sid \in SubmissionIds :
       Enter("get_comments_id_from_submissions_id", r, CommentIdsUrl(sid), sid, <<>>)
  /\ UNCHANGED <<err_files, otherVars, drv, dlog, env>>

get_comments_call ==
  /\ pc = "idle"
  /\ \E r \in 0..MaxRetries, l \in {<<"a">>, <<"a", "b">>} :
       Enter("get_comments", r, CommentsUrl(l), "", l)
  /\ UNCHANGED <<err_files, otherVars, drv, dlog, env>>

InitFetch ==
  /\ call = NoCall
  /\ retry = 0
  /\ pc = "idle"
  /\ response = Unbound
  /\ list_comments_submission_id = <<>>
  /\ result = NoResult
  /\ attempts = <<>>
  /\ trace = <<>>
  /\ err_files \in {[f \in ErrorFileNames |-> <<>>], [f \in ErrorFileNames |-> <<OldLine>>]}
  /\ json_files = [f \in JsonFileNames |-> Absent]
  /\ payloads = [f \in JsonFileNames |-> <<>>]
  /\ io_error = "none"
  /\ dates = NoDates
  /\ time_stamps = Unset
  /\ drv = NoDriver
  /\ dlog = <<>>
  /\ env = [faults_left |-> MaxRetries + 1, subs_served |-> 0, max_subs |-> MaxData,
            id_lists |-> {SubSeq(CommentNames, 1, n) : n \in 0..MaxData}]

NextFetch ==
  \/ get_submissions_call
  \/ get_comments_id_from_submissions_id_call
  \/ get_comments_call
  \/ FetchStep

SpecFetch == InitFetch /\ [][NextFetch]_vars

(***************************************************************************)
(* Properties of the fetch operations (checked under SpecFetch)            *)
(***************************************************************************)
Terminal == pc \in {"returned", "raised"}

\* the GET raised one of the two errors the except clauses name
GetFailed(o) == o.kind = "raise" /\ o.exc \in {"JSONDecodeError", "HTTPError"}

\* a failed attempt: the GET raised such an error, or its body does not decode
FailedAttempt(o) == GetFailed(o) \/ (o.kind = "response" /\ o.body.json = "invalid")

\* a successful attempt: a response whose body is {"data": [...]}
Succeeded(o) == o.kind = "response" /\ o.body.json = "data"

LinesAdded(f) == Len(err_files[f]) - Len(call.err0[f])

\* C1: get_submissions with num_retries = 2, two failed attempts and a successful
\* third: the call returns the third attempt's payload and submissions_error.txt
\* has gained exactly two lines.
C1_FailTwiceThenSucceed ==
  ( /\ call.op = "get_submissions" /\ call.num_retries = 2
    /\ Terminal
    /\ Len(attempts) = 3
    /\ FailedAttempt(attempts[1]) /\ FailedAttempt(attempts[2])
    /\ Succeeded(attempts[3]) )
  => ( /\ pc = "returned"
       /\ result = Returned(attempts[3].body, <<>>)
       /\ LinesAdded("submissions_error") = 2 )

\* C2: get_submissions with num_retries = 1 against a client whose every GET fails:
\* exactly two attempts are made and the call ends in a defined outcome, never by
\* reading a result that no attempt assigned.
C2_AlwaysFailsDefinedOutcome ==
  ( /\ call.op = "get_submissions" /\ call.num_retries = 1
    /\ Terminal
    /\ \A i \in 1..Len(attempts) : GetFailed(attempts[i]) )
  => ( /\ Len(attempts) = 2
       /\ result.exc # "UnboundLocalError" )

\* C3: in each operation every GET, successful or not, is followed by one sleep of
\* the fixed delay before the next GET is issued or the operation returns.
C3_SleepAfterEveryAttempt ==
  \A i \in 1..Len(trace) :
    trace[i].ev = "GET" =>
      IF i < Len(trace) THEN trace[i + 1] = SleepEvent ELSE pc # "returned"

\* C4: in each operation every failed attempt of either kind appends the request
\* URL as one line to the operation's error file: when the operation has ended, the
\* lines added are as many as the failed attempts, each the URL.
C4_ErrorLinePerFailedAttempt ==
  (call.op # "none" /\ Terminal) =>
    LET f == ErrorFileOf(call.op)
        n == Cardinality({i \in 1..Len(attempts) : FailedAttempt(attempts[i])})
    IN /\ LinesAdded(f) = n
       /\ \A i \in 1..LinesAdded(f) : err_files[f][Len(call.err0[f]) + i] = call.url

\* no attempt of this call has produced a comment id
NoPairAccumulated ==
  \A i \in 1..Len(attempts) : ~(Succeeded(attempts[i]) /\ Len(attempts[i].body.data) > 0)

\* C5: get_comments_id_from_submissions_id never returns an empty list; when no
\* pair was accumulated (zero ids, or every attempt failed) it returns exactly the
\* one pair {submission_id: X, comment_id: "N/A"}.
C5_NeverEmptyList ==
  (call.op = "get_comments_id_from_submissions_id" /\ pc = "returned") =>
    /\ Len(result.pairs) >= 1
    /\ NoPairAccumulated => result.pairs = <<Pair(call.submission_id, "N/A")>>

C5_Witness ==
  /\ call.op = "get_comments_id_from_submissions_id" /\ pc = "returned"
  /\ call.num_retries >= 1
  /\ Len(attempts) = call.num_retries + 1
  /\ \A i \in 1..Len(attempts) : FailedAttempt(attempts[i])
  /\ result.pairs = <<Pair(call.submission_id, "N/A")>>

\* C6: when the endpoint returns the non-empty list [c1..cn], the call returns
\* exactly the n pairs {submission_id: X, comment_id: ci} in that order, also after
\* failed attempts: nothing duplicated, left over or mixed in.
C6_PairsInEndpointOrder ==
  ( /\ call.op = "get_comments_id_from_submissions_id" /\ pc = "returned"
    /\ Len(attempts) >= 1
    /\ Succeeded(attempts[Len(attempts)])
    /\ Len(attempts[Len(attempts)].body.data) > 0 )
  => LET data == attempts[Len(attempts)].body.data
     IN result.pairs = [i \in 1..Len(data) |-> Pair(call.submission_id, data[i])]

C6_Witness ==
  /\ call.op = "get_comments_id_from_submissions_id" /\ pc = "returned"
  /\ Len(attempts) >= 2
  /\ FailedAttempt(attempts[1])
  /\ Succeeded(attempts[Len(attempts)])
  /\ attempts[Len(attempts)].body.data = <<"a", "b">>
  /\ Len(result.pairs) = 2

\* C10: with retry budget r >= 0 at most r + 1 GETs are made, each GET but the
\* first follows a failed attempt, none follows a successful one, and with r = 0
\* exactly one is made.
C10_BoundedAttempts ==
  call.op # "none" =>
    /\ Len(attempts) <= call.num_retries + 1
    /\ Cardinality({i \in 1..Len(trace) : trace[i].ev = "GET"}) = Len(attempts)
    /\ \A i \in 1..(Len(attempts) - 1) :
         FailedAttempt(attempts[i]) /\ ~Succeeded(attempts[i])
    /\ (call.num_retries = 0 /\ pc \in {"after_loop", "returned", "raised"})
         => Len(attempts) = 1

C10_Witness ==
  /\ call.op = "get_comments" /\ pc = "returned"
  /\ call.num_retries = 2
  /\ FailedAttempt(attempts[1]) /\ FailedAttempt(attempts[2])
  /\ Len(attempts) = 3
  /\ Succeeded(attempts[3])

(***************************************************************************)
(* SpecJson: calls of build_json_file, starting with no file on disk       *)
(***************************************************************************)
MaxCalls == 3

Record(id) == JObj(<<JField("id", JStr(id))>>)

\* what callers hand over: one record, or a list of records as the driver does
Payloads ==
  {Record("s1"), JList(<<>>), JList(<<Record("s1")>>), JList(<<Record("s2")>>),
   JList(<<Record("s1"), Record("s2")>>)}

TotalCalls == Len(payloads["submissions"]) + Len(payloads["submission_id_to_comment_id"])
              + Len(payloads["comments"])

build_json_file_call ==
  /\ io_error = "none"
  /\ TotalCalls < MaxCalls
  /\ \E f \in {"submissions", "comments"}, new_data \in Payloads :
       LET r == build_json_file(json_files, new_data, f)
       IN /\ json_files' = r.files
          /\ io_error' = r.exc
          /\ payloads' = [payloads EXCEPT ![f] = Append(@, new_data)]
  /\ UNCHANGED <<fetchVars, err_files, dates, time_stamps, drv, dlog, env>>

InitJson ==
  /\ call = NoCall
  /\ retry = 0
  /\ pc = "idle"
  /\ response = Unbound
  /\ list_comments_submission_id = <<>>
  /\ result = NoResult
  /\ attempts = <<>>
  /\ trace = <<>>
  /\ err_files = [f \in ErrorFileNames |-> <<>>]
  /\ json_files = [f \in JsonFileNames |-> Absent]
  /\ payloads = [f \in JsonFileNames |-> <<>>]
  /\ io_error = "none"
  /\ dates = NoDates
  /\ time_stamps = Unset
  /\ drv = NoDriver
  /\ dlog = <<>>
  /\ env = NoClient

NextJson == build_json_file_call

SpecJson == InitJson /\ [][NextJson]_vars

\* C7: starting from a file that does not exist, after k >= 1 calls of
\* build_json_file on one file name with payloads p1..pk the file holds the JSON
\* array [p1, ..., pk], whatever the payloads are.
C7_FileIsArrayOfPayloads ==
  \A f \in JsonFileNames :
    Len(payloads[f]) >= 1 =>
      /\ io_error = "none"
      /\ json_files[f] # Absent
      /\ Load(json_files[f]) = JList(payloads[f])

\* the parsed text of a written file is the value that was written
DumpLoadRoundTrip ==
  \A f \in JsonFileNames :
    (Len(payloads[f]) = 1) => Load(json_files[f]) = payloads[f][1]

(***************************************************************************)
(* run_retrieval.make_date_range                                           *)
(***************************************************************************)
\* Dates are day numbers (date.toordinal, shifted so that day 0 is 1970-01-01).
\* A time zone is [std, dst_from, dst_to]: std seconds east of UTC, and daylight
\* saving time (one hour ahead) from 02:00 of day dst_from to 02:00 of day dst_to;
\* dst_from = dst_to is a zone without daylight saving time.
UtcOffset(day, tz) ==
  tz.std + (IF tz.dst_from < day /\ day <= tz.dst_to THEN 3600 ELSE 0)

\* time.mktime(day.timetuple()): the UNIX time of local midnight of the day
mktime(day, tz) == day * 86400 - UtcOffset(day, tz)

\* a range that leaves out the end date
make_date_range_exclusive(start_date, end_date, tz) ==
  LET days == end_date - start_date
  IN [i \in 1..(IF days > 0 THEN days ELSE 0) |->
        IntToStr(mktime(start_date + (i - 1), tz))]

\* for num_days in range(time_delta.days + 1): append str(int(mktime(start + num_days)))
make_date_range(start_date, end_date, tz) ==
  LET days == end_date - start_date
  IN [i \in 1..(IF days + 1 > 0 THEN days + 1 ELSE 0) |->
        IntToStr(mktime(start_date + (i - 1), tz))]

\* int(s) of a decimal string
DigitValue(c) ==
  CASE c = "0" -> 0 [] c = "1" -> 1 [] c = "2" -> 2 [] c = "3" -> 3 [] c = "4" -> 4
    [] c = "5" -> 5 [] c = "6" -> 6 [] c = "7" -> 7 [] c = "8" -> 8 [] c = "9" -> 9

RECURSIVE StrToNat(_)
StrToNat(str) ==
  IF Len(str) = 0 THEN 0
  ELSE 10 * StrToNat(SubSeq(str, 1, Len(str) - 1)) + DigitValue(str[Len(str)])

StrToInt(str) == IF str[1] = "-" THEN -StrToNat(Tail(str)) ELSE StrToNat(str)

(***************************************************************************)
(* SpecDates: one call of make_date_range, for any dates up to MaxDay and  *)
(* any of the modelled time zones                                          *)
(***************************************************************************)
MaxDay == 4

TimeZones ==
  {[std |-> s, dst_from |-> a, dst_to |-> b] :
     s \in {-18000, 0, 3600}, a \in 0..MaxDay, b \in 0..MaxDay}

make_date_range_call ==
  /\ time_stamps = Unset
  /\ dates.given
  /\ drv.pc = "none"
  /\ time_stamps' = make_date_range(dates.start_date, dates.end_date, dates.tz)
  /\ UNCHANGED <<fetchVars, err_files, json_files, payloads, io_error, dates, drv, dlog,
                 env>>

InitDates ==
  /\ call = NoCall
  /\ retry = 0
  /\ pc = "idle"
  /\ response = Unbound
  /\ list_comments_submission_id = <<>>
  /\ result = NoResult
  /\ attempts = <<>>
  /\ trace = <<>>
  /\ err_files = [f \in ErrorFileNames |-> <<>>]
  /\ json_files = [f \in JsonFileNames |-> Absent]
  /\ payloads = [f \in JsonFileNames |-> <<>>]
  /\ io_error = "none"
  /\ \E s \in 0..MaxDay, e \in 0..MaxDay, z \in TimeZones :
       /\ z.dst_from <= z.dst_to
       /\ dates = [given |-> TRUE, start_date |-> s, end_date |-> e, tz |-> z]
  /\ time_stamps = Unset
  /\ drv = NoDriver
  /\ dlog = <<>>
  /\ env = NoClient

NextDates == make_date_range_call

SpecDates == InitDates /\ [][NextDates]_vars

DateRangeReturned ==
  dates.given /\ time_stamps # Unset /\ dates.end_date >= dates.start_date

SpanDays == dates.end_date - dates.start_date

\* the day the i-th timestamp stands for
DayOf(i) == dates.start_date + (i - 1)

Lower(str) ==
  CASE str = "Reddit-Historical" -> "reddit-historical"
    [] OTHER -> str

get_data_source(data_source) ==
  IF Lower(data_source) = "reddit-historical" THEN "CollectRedditPSIOData" ELSE "None"

(***************************************************************************)
(* run_retrieval.run_reddit_psio_query                                     *)
(***************************************************************************)
\* the default of the num_retries parameter, which the driver never overrides
num_retries_default == 1

\* the payloads the driver hands to build_json_file
SubmissionsJson(data) == JList([i \in 1..Len(data) |-> Record(data[i])])
CommentsJson(data) == JList([i \in 1..Len(data) |-> Record(data[i])])
PairsJson(pairs) ==
  JList([i \in 1..Len(pairs) |->
           JObj(<<JField("submission_id", JStr(pairs[i].submission_id)),
                  JField("comment_id", JStr(pairs[i].comment_id))>>)])

\* an entry of the history: what was done, in which window (idx), for which
\* submission, with which ids
Ev(ev, idx, sub, ids) == [ev |-> ev, idx |-> idx, sub |-> sub, ids |-> ids]

\* the frame of a fetch operation is gone once its caller has its result
ClearFrame ==
  /\ call' = NoCall
  /\ retry' = 0
  /\ pc' = "idle"
  /\ response' = Unbound
  /\ list_comments_submission_id' = <<>>
  /\ result' = NoResult
  /\ attempts' = <<>>
  /\ trace' = <<>>

\* an exception nothing catches ends the run
Crash(d, e, log) ==
  /\ drv' = [d EXCEPT !.pc = "crashed", !.exc = e]
  /\ dlog' = log
  /\ ClearFrame

\* for idx in range(size_date_range - 1): fetch the window's submissions
NextWindow(d, log) ==
  IF d.idx < Len(d.date_range) - 1
  THEN /\ Enter("get_submissions", num_retries_default,
                SubmissionsUrl(d.query, d.subreddit, d.date_range[d.idx + 1],
                               d.date_range[d.idx + 2]), "", <<>>)
       /\ drv' = [d EXCEPT !.pc = "get_submissions"]
       /\ dlog' = Append(log, Ev("fetch_submissions", d.idx, "", <<>>))
  ELSE /\ drv' = [d EXCEPT !.pc = "done"]
       /\ dlog' = log
       /\ ClearFrame

\* for sub_id in subs_id: fetch its comment ids; after the last, the next window
NextSubmission(d, log) ==
  IF d.k < Len(d.subs_id)
  THEN /\ Enter("get_comments_id_from_submissions_id", num_retries_default,
                CommentIdsUrl(d.subs_id[d.k + 1]), d.subs_id[d.k + 1], <<>>)
       /\ drv' = [d EXCEPT !.pc = "get_comments_id_from_submissions_id"]
       /\ dlog' = Append(log, Ev("fetch_comment_ids", d.idx, d.subs_id[d.k + 1], <<>>))
  ELSE NextWindow([d EXCEPT !.idx = @ + 1, !.subs_id = <<>>, !.k = 0], log)

\* a test that takes every mapping to have comments
HasCommentsAlways(list_comments_ids) == TRUE

\* if list_comments_ids[0] != "N/A"
HasComments(list_comments_ids) == list_comments_ids[1] # "N/A"

\* the data source, the date range, and the first window's get_submissions call
run_reddit_psio_query_begin ==
  /\ drv.pc = "start"
  /\ IF get_data_source("reddit-historical") = "None"
     THEN Crash(drv, "AttributeError", dlog)
     ELSE NextWindow([drv EXCEPT !.date_range =
                        make_date_range(dates.start_date, dates.end_date, dates.tz),
                      !.idx = 0], dlog)
  /\ UNCHANGED <<err_files, otherVars, env>>

\* get_submissions has ended: persist submissions["data"], take the ids, and go on
\* to the first submission's comment ids
after_get_submissions ==
  /\ drv.pc = "get_submissions" /\ pc \in {"returned", "raised"}
  /\ IF pc = "raised"
     THEN Crash(drv, result.exc, dlog) /\ UNCHANGED json_files
     ELSE IF result.body.json # "data"
     THEN Crash(drv, "KeyError", dlog) /\ UNCHANGED json_files
     ELSE LET data == result.body.data
              w == build_json_file(json_files, SubmissionsJson(data), "submissions")
          IN /\ json_files' = w.files
             /\ IF w.exc # "none"
                THEN Crash(drv, w.exc, dlog)
                ELSE NextSubmission([drv EXCEPT !.subs_id = data, !.k = 0],
                                    Append(dlog, Ev("persist_submissions", drv.idx, "", data)))
  /\ UNCHANGED <<err_files, payloads, io_error, dates, time_stamps, env>>

\* get_comments_id_from_submissions_id has ended: persist the mapping, then fetch
\* the comments unless the first comment id is "N/A"
after_get_comments_id_from_submissions_id ==
  /\ drv.pc = "get_comments_id_from_submissions_id" /\ pc \in {"returned", "raised"}
  /\ IF pc = "raised"
     THEN Crash(drv, result.exc, dlog) /\ UNCHANGED json_files
     ELSE LET subs_id_to_comm_id == result.pairs
              w == build_json_file(json_files, PairsJson(subs_id_to_comm_id),
                                   "submission_id_to_comment_id")
              list_comments_ids ==
                [i \in 1..Len(subs_id_to_comm_id) |-> subs_id_to_comm_id[i].comment_id]
              persisted ==
                Append(dlog, Ev("persist_comment_ids", drv.idx, call.submission_id,
                          list_comments_ids))
          IN /\ json_files' = w.files
             /\ IF w.exc # "none"
                THEN Crash(drv, w.exc, dlog)
                ELSE IF HasComments(list_comments_ids)
                THEN /\ Enter("get_comments", num_retries_default,
                              CommentsUrl(list_comments_ids), "", list_comments_ids)
                     /\ drv' = [drv EXCEPT !.pc = "get_comments"]
                     /\ dlog' = Append(persisted,
                                       Ev("fetch_comments", drv.idx, call.submission_id,
                                          list_comments_ids))
                ELSE NextSubmission([drv EXCEPT !.k = @ + 1], persisted)
  /\ UNCHANGED <<err_files, payloads, io_error, dates, time_stamps, env>>

\* get_comments has ended: persist comments["data"] and go on to the next submission
after_get_comments ==
  /\ drv.pc = "get_comments" /\ pc \in {"returned", "raised"}
  /\ IF pc = "raised"
     THEN Crash(drv, result.exc, dlog) /\ UNCHANGED json_files
     ELSE IF result.body.json # "data"
     THEN Crash(drv, "KeyError", dlog) /\ UNCHANGED json_files
     ELSE LET w == build_json_file(json_files, CommentsJson(result.body.data), "comments")
          IN /\ json_files' = w.files
             /\ IF w.exc # "none"
                THEN Crash(drv, w.exc, dlog)
                ELSE NextSubmission([drv EXCEPT !.k = @ + 1],
                                    Append(dlog, Ev("persist_comments", drv.idx,
                                                    drv.subs_id[drv.k + 1],
                                                    result.body.data)))
  /\ UNCHANGED <<err_files, payloads, io_error, dates, time_stamps, env>>

(***************************************************************************)
(* Spec: one run of run_reddit_psio_query over up to MaxWindows day        *)
(* windows, against a client that hands out at most MaxSubsPerRun          *)
(* submissions, each with no, one or two comments, and fails at most       *)
(* num_retries_default + 1 times, which is what it takes to use up the     *)
(* retry budget of a call                                                  *)
(***************************************************************************)
MaxWindows == 2

\* the comment-id lists the client answers with in a run
DriverIdLists == {<<>>, <<"a">>, <<"a", "b">>}

\* a zone whose clocks change within the run
DriverZones == {[std |-> -18000, dst_from |-> 0, dst_to |-> 1]}

Init ==
  /\ call = NoCall
  /\ retry = 0
  /\ pc = "idle"
  /\ response = Unbound
  /\ list_comments_submission_id = <<>>
  /\ result = NoResult
  /\ attempts = <<>>
  /\ trace = <<>>
  /\ err_files = [f \in ErrorFileNames |-> <<>>]
  /\ json_files = [f \in JsonFileNames |-> Absent]
  /\ payloads = [f \in JsonFileNames |-> <<>>]
  /\ io_error = "none"
  /\ \E e \in 0..MaxWindows, z \in DriverZones :
       dates = [given |-> TRUE, start_date |-> 0, end_date |-> e, tz |-> z]
  /\ time_stamps = Unset
  /\ drv = [pc |-> "start", query |-> "covid", subreddit |-> "Canada",
            date_range |-> <<>>, idx |-> 0, subs_id |-> <<>>, k |-> 0, exc |-> "none"]
  /\ dlog = <<>>
  /\ env = [faults_left |-> num_retries_default + 1, subs_served |-> 0,
            max_subs |-> MaxSubsPerRun, id_lists |-> DriverIdLists]

Next ==
  \/ run_reddit_psio_query_begin
  \/ FetchStep
  \/ after_get_submissions
  \/ after_get_comments_id_from_submissions_id
  \/ after_get_comments

Spec == Init /\ [][Next]_vars

(***************************************************************************)
(* Properties of the driver (checked under Spec)                           *)
(***************************************************************************)
\* the submissions persisted for window idx (none when nothing was persisted)
PersistedSubmissions(idx) ==
  LET ps == {p \in 1..Len(dlog) : dlog[p].ev = "persist_submissions" /\ dlog[p].idx = idx}
  IN IF ps = {} THEN <<>> ELSE dlog[CHOOSE p \in ps : TRUE].ids

\* how many comment-id fetches window idx has made among the first j events
FetchesInWindow(idx, j) ==
  Cardinality({q \in 1..j : dlog[q].ev = "fetch_comment_ids" /\ dlog[q].idx = idx})

\* the payloads the events named ev stand for, in order
RECURSIVE PayloadsOf(_, _)
PayloadsOf(log, ev) ==
  IF Len(log) = 0 THEN <<>>
  ELSE LET e == log[Len(log)]
           rest == PayloadsOf(SubSeq(log, 1, Len(log) - 1), ev)
       IN IF e.ev # ev THEN rest
          ELSE IF ev = "persist_comment_ids"
          THEN Append(rest, PairsJson([i \in 1..Len(e.ids) |-> Pair(e.sub, e.ids[i])]))
          ELSE Append(rest, SubmissionsJson(e.ids))

\* every persist event has left its payload in the file: the first payload's
\* records, then each later payload as one element
InFile(f, ev) ==
  LET ps == PayloadsOf(dlog, ev)
  IN IF Len(ps) = 0 THEN json_files[f] = Absent
     ELSE /\ json_files[f] # Absent
          /\ Load(json_files[f]) = JList(ps[1].items \o Tail(ps))

\* C9: for every submission id of every window, in order, the comment-id mapping
\* is fetched and then persisted before any comment fetch for it; get_comments is
\* called, and its result persisted, exactly when the first comment id of the
\* mapping is not "N/A"; "N/A" is never passed to get_comments; and the window's
\* submissions are persisted before its first comment-id fetch.
C9_DriverOrder ==
  /\ \A j \in 1..Len(dlog) :
       LET e == dlog[j]
       IN /\ e.ev = "fetch_comment_ids" =>
               /\ \E p \in 1..(j - 1) :
                    dlog[p].ev = "persist_submissions" /\ dlog[p].idx = e.idx
               /\ FetchesInWindow(e.idx, j) <= Len(PersistedSubmissions(e.idx))
               /\ e.sub = PersistedSubmissions(e.idx)[FetchesInWindow(e.idx, j)]
          /\ e.ev = "persist_comment_ids" =>
               /\ j > 1 /\ dlog[j - 1] = Ev("fetch_comment_ids", e.idx, e.sub, <<>>)
               /\ e.ids[1] # "N/A" => (j < Len(dlog) /\ dlog[j + 1].ev = "fetch_comments")
               /\ e.ids[1] = "N/A" => (j < Len(dlog) => dlog[j + 1].ev # "fetch_comments")
          /\ e.ev = "fetch_comments" =>
               /\ j > 2
               /\ dlog[j - 1] = Ev("persist_comment_ids", e.idx, e.sub, e.ids)
               /\ \A i \in 1..Len(e.ids) : e.ids[i] # "N/A"
               /\ IF j < Len(dlog)
                  THEN dlog[j + 1].ev = "persist_comments" /\ dlog[j + 1].sub = e.sub
                  ELSE drv.pc \in {"get_comments", "crashed"}
          /\ e.ev = "persist_comments" => (j > 1 /\ dlog[j - 1].ev = "fetch_comments")
          /\ e.ev = "persist_submissions" =>
               (j > 1 /\ dlog[j - 1] = Ev("fetch_submissions", e.idx, "", <<>>))
          /\ e.ev = "fetch_submissions" =>
               /\ \A q \in 1..(j - 1) : dlog[q].idx < e.idx
               /\ e.idx > 0 =>
                    FetchesInWindow(e.idx - 1, j) = Len(PersistedSubmissions(e.idx - 1))
  /\ (drv.pc = "done" /\ Len(dlog) > 0) =>
       FetchesInWindow(dlog[Len(dlog)].idx, Len(dlog))
         = Len(PersistedSubmissions(dlog[Len(dlog)].idx))
  /\ InFile("submissions", "persist_submissions")
  /\ InFile("submission_id_to_comment_id", "persist_comment_ids")
  /\ InFile("comments", "persist_comments")

C9_Witness ==
  /\ drv.pc = "done"
  /\ Len(drv.date_range) = 3
  /\ \E i, j \in 1..Len(dlog) :
       /\ i < j
       /\ dlog[i].ev = "persist_comments"
       /\ dlog[j].ev = "persist_comment_ids" /\ dlog[j].ids = <<"N/A">>
       /\ dlog[i].idx = dlog[j].idx

====
